---- MODULE Spec2Model ----
(***************************************************************************)
(* Model of the mental-health support chatbot (scripts/code2.py): the      *)
(* knowledge-base lookup, the ordered pattern rules, the sentiment scorer, *)
(* the conversation log, resource seeding and the Tk chat window with its  *)
(* background response threads and after() timers.                         *)
(*                                                                         *)
(* Text is a sequence of one-character strings, so that matching, case     *)
(* folding, stripping and splitting are computed character by character.   *)
(* The literal runs of a response template are kept as opaque chunks; the  *)
(* "%" of a placeholder, the digit after it and a template's last two      *)
(* characters stay single characters, since those are the only places the  *)
(* code looks at.                                                          *)
(***************************************************************************)
EXTENDS Integers, Sequences, FiniteSets, TLC

VARIABLES
  knowledge_base,  \* the sequence knowledge_base["questions"] of [question, answer]
  conversations,   \* rows of the conversations table, in insertion order
  resources,       \* rows of the resources table, in insertion order
  user_input,      \* text handed to respond / analyze_sentiment (pure-function runs)
  result,          \* what the last call returned
  history,         \* history variable: the turns of the session so far
  seed_runs,       \* history variable: completed initialize_resources calls (capped)
  entry,           \* content of the Entry widget self.user_input
  chat_display,    \* messages inserted in the ScrolledText, in order
  threads,         \* the process_response threads started so far; the field
                   \* waiting_at_quit is history: the reply was waiting on its
                   \* timer when quit was first submitted
  timers,          \* pending master.after callbacks, in registration order
  destroyed,       \* master.destroy has run
  last,            \* history variable: how the last send_message ended
  clicks           \* history variable: user actions handled so far (capped)

vars == <<knowledge_base, conversations, resources, user_input, result, history,
          seed_runs, entry, chat_display, threads, timers, destroyed, last, clicks>>

----------------------------------------------------------------------------
(* Bounds of the model *)

\* chunks per user input in the single-call specifications
MaxChunks == 4
\* turns per session
MaxTurns == 3
\* initialize_resources calls counted by seed_runs
MaxSeedRuns == 2
\* user actions (submissions, button presses) in one run of the window
MaxUserActions == 2
\* rows of self.resources that random.choice is let to pick from
MaxResourceRows == 1

----------------------------------------------------------------------------
(* Characters and text *)

UpperCase == <<"A", "B", "C", "D", "E", "F", "G", "H", "I", "J", "K", "L", "M", "N", "O", "P", "Q", "R", "S", "T", "U", "V", "W", "X", "Y", "Z">>

LowerCase == <<"a", "b", "c", "d", "e", "f", "g", "h", "i", "j", "k", "l", "m", "n", "o", "p", "q", "r", "s", "t", "u", "v", "w", "x", "y", "z">>

\* the characters of the model in code-point order, for the comparison of str
Ascii == <<"\t", "\n", " ", "!", "\"", "#", "$", "%", "&", "'", "(", ")", "*", "+", ",", "-", ".", "/", "0", "1", "2", "3", "4", "5", "6", "7", "8", "9", ":", ";", "<", "=", ">", "?", "@", "A", "B", "C", "D", "E", "F", "G", "H", "I", "J", "K", "L", "M", "N", "O", "P", "Q", "R", "S", "T", "U", "V", "W", "X", "Y", "Z", "[", "\\", "]", "^", "_", "a", "b", "c", "d", "e", "f", "g", "h", "i", "j", "k", "l", "m", "n", "o", "p", "q", "r", "s", "t", "u", "v", "w", "x", "y", "z", "{", "|", "}", "~">>

Ord(c) == CHOOSE i \in 1..Len(Ascii) : Ascii[i] = c

UpperSet == {UpperCase[i] : i \in 1..Len(UpperCase)}

\* str.lower() on one character
LowerChar(c) ==
  IF c \in UpperSet
  THEN LowerCase[CHOOSE i \in 1..Len(UpperCase) : UpperCase[i] = c]
  ELSE c

\* str.lower()
Lower(s) == [i \in 1..Len(s) |-> LowerChar(s[i])]

\* the whitespace str.split() and str.strip() look for
IsSpace(c) == c \in {" ", "\t", "\n", "\r", "\f"}

RECURSIVE Flatten(_)
Flatten(ss) == IF ss = <<>> THEN <<>> ELSE Head(ss) \o Flatten(Tail(ss))

\* s[i:j] of Python (0-based, end exclusive) is Slice(s, i+1, j)
Slice(s, lo, hi) == IF lo > hi THEN <<>> ELSE SubSeq(s, lo, hi)

\* str.strip()
Strip(s) ==
  LET keep == {i \in 1..Len(s) : ~IsSpace(s[i])}
  IN IF keep = {} THEN <<>>
     ELSE Slice(s, CHOOSE i \in keep : \A j \in keep : i <= j,
                   CHOOSE i \in keep : \A j \in keep : i >= j)

\* str.split(): the maximal runs of non-whitespace, left to right
RECURSIVE SplitFrom(_, _, _)
SplitFrom(s, i, word) ==
  IF i > Len(s) THEN (IF word = <<>> THEN <<>> ELSE <<word>>)
  ELSE IF IsSpace(s[i])
       THEN (IF word = <<>> THEN <<>> ELSE <<word>>) \o SplitFrom(s, i + 1, <<>>)
       ELSE SplitFrom(s, i + 1, Append(word, s[i]))

Split(s) == SplitFrom(s, 1, <<>>)

\* x < y for str
RECURSIVE StrLess(_, _)
StrLess(x, y) ==
  IF y = <<>> THEN FALSE
  ELSE IF x = <<>> THEN TRUE
  ELSE IF Head(x) = Head(y) THEN StrLess(Tail(x), Tail(y))
  ELSE Ord(Head(x)) < Ord(Head(y))

----------------------------------------------------------------------------
(* The pattern table of _load_response_patterns.  A rule is kept as the   *)
(* literal after group 1, the alternatives of group 2 in the order written *)
(* and its templates; the last rule is the catch-all.                      *)

\* (.*) feeling (sad|depressed|lonely|down|exhausted|hopeless)(.*)   (source lines 91-95)
Rule1 ==
  [catchall |-> FALSE,
   lit |-> <<" ", "f", "e", "e", "l", "i", "n", "g", " ">>,
   alts |-> <<<<"s", "a", "d">>,
            <<"d", "e", "p", "r", "e", "s", "s", "e", "d">>,
            <<"l", "o", "n", "e", "l", "y">>,
            <<"d", "o", "w", "n">>,
            <<"e", "x", "h", "a", "u", "s", "t", "e", "d">>,
            <<"h", "o", "p", "e", "l", "e", "s", "s">>>>,
   responses |-> <<<<"I'm really sorry you're feeling ", "%", "2", ". That sounds really difficult. Would you like to share more about what's going o", "n", "?">>,
      <<"I hear that you're feeling ", "%", "2", ". That must be really hard. I'm here to listen if you want to talk about i", "t", ".">>>>]

\* (.*) (stress|anxiety|stressed|anxious|panic|overwhelmed)(.*)   (source lines 96-100)
Rule2 ==
  [catchall |-> FALSE,
   lit |-> <<" ">>,
   alts |-> <<<<"s", "t", "r", "e", "s", "s">>,
            <<"a", "n", "x", "i", "e", "t", "y">>,
            <<"s", "t", "r", "e", "s", "s", "e", "d">>,
            <<"a", "n", "x", "i", "o", "u", "s">>,
            <<"p", "a", "n", "i", "c">>,
            <<"o", "v", "e", "r", "w", "h", "e", "l", "m", "e", "d">>>>,
   responses |-> <<<<"%", "2", " can feel really overwhelming. Remember to breathe - you're doing great by reaching out. What specifically is causing your ", "%", "2", "?">>,
      <<"I understand ", "%", "2", " can be really challenging. Would it help to talk through what's bothering yo", "u", "?">>>>]

\* (.*) (happy|good|great|awesome|wonderful)(.*)   (source lines 101-105)
Rule3 ==
  [catchall |-> FALSE,
   lit |-> <<" ">>,
   alts |-> <<<<"h", "a", "p", "p", "y">>,
            <<"g", "o", "o", "d">>,
            <<"g", "r", "e", "a", "t">>,
            <<"a", "w", "e", "s", "o", "m", "e">>,
            <<"w", "o", "n", "d", "e", "r", "f", "u", "l">>>>,
   responses |-> <<<<"I'm so glad you're feeling ", "%", "2", "! It's wonderful to hear that. What's contributing to these positive feeling", "s", "?">>,
      <<"That's fantastic that you're feeling ", "%", "2", "! Would you like to share what's bringing you jo", "y", "?">>>>]

\* (.*) (burden|useless|worthless|stupid|not enough|failure)(.*)   (source lines 106-110)
Rule4 ==
  [catchall |-> FALSE,
   lit |-> <<" ">>,
   alts |-> <<<<"b", "u", "r", "d", "e", "n">>,
            <<"u", "s", "e", "l", "e", "s", "s">>,
            <<"w", "o", "r", "t", "h", "l", "e", "s", "s">>,
            <<"s", "t", "u", "p", "i", "d">>,
            <<"n", "o", "t", " ", "e", "n", "o", "u", "g", "h">>,
            <<"f", "a", "i", "l", "u", "r", "e">>>>,
   responses |-> <<<<"I want you to know that your feelings are valid, but I'm concerned that you're being so hard on yourself. Would you talk to me more about why you feel this wa", "y", "?">>,
      <<"Hearing you say that makes me want to remind you that you matter. These thoughts can be really painful. Would you like to share what's going o", "n", "?">>>>]

\* (.*) (suicide|end it all|kill myself|don't want to live)(.*)   (source lines 111-115)
Rule5 ==
  [catchall |-> FALSE,
   lit |-> <<" ">>,
   alts |-> <<<<"s", "u", "i", "c", "i", "d", "e">>,
            <<"e", "n", "d", " ", "i", "t", " ", "a", "l", "l">>,
            <<"k", "i", "l", "l", " ", "m", "y", "s", "e", "l", "f">>,
            <<"d", "o", "n", "'", "t", " ", "w", "a", "n", "t", " ", "t", "o", " ", "l", "i", "v", "e">>>>,
   responses |-> <<<<"I'm really concerned about what you're saying. Your life is valuable. Please reach out to a crisis hotline immediately. In the US, you can call 988 for the Suicide & Crisis Lifeline. Would you like me to help you find local resource", "s", "?">>,
      <<"I hear how much pain you're in right now. Please know you're not alone. Can I help you connect with someone who can provide more suppor", "t", "?">>>>]

\* (.*) (help me|need help|support)(.*)   (source lines 116-120)
Rule6 ==
  [catchall |-> FALSE,
   lit |-> <<" ">>,
   alts |-> <<<<"h", "e", "l", "p", " ", "m", "e">>,
            <<"n", "e", "e", "d", " ", "h", "e", "l", "p">>,
            <<"s", "u", "p", "p", "o", "r", "t">>>>,
   responses |-> <<<<"I'm here to help. Can you tell me more about what kind of support you're looking fo", "r", "?">>,
      <<"I want to provide the right kind of support. What would be most helpful for you right no", "w", "?">>>>]

\* (.*) (cope|coping|deal with)(.*)   (source lines 121-125)
Rule7 ==
  [catchall |-> FALSE,
   lit |-> <<" ">>,
   alts |-> <<<<"c", "o", "p", "e">>,
            <<"c", "o", "p", "i", "n", "g">>,
            <<"d", "e", "a", "l", " ", "w", "i", "t", "h">>>>,
   responses |-> <<<<"Coping with difficult emotions can be challenging. Some strategies include deep breathing, talking to someone you trust, or engaging in a calming activity. What usually helps you when you're strugglin", "g", "?">>,
      <<"Finding healthy ways to cope is so important. Would you like some suggestions for coping strategies that might hel", "p", "?">>>>]

\* (.*) (angry|frustrated|annoyed|irritated|mad)(.*)   (source lines 126-130)
Rule8 ==
  [catchall |-> FALSE,
   lit |-> <<" ">>,
   alts |-> <<<<"a", "n", "g", "r", "y">>,
            <<"f", "r", "u", "s", "t", "r", "a", "t", "e", "d">>,
            <<"a", "n", "n", "o", "y", "e", "d">>,
            <<"i", "r", "r", "i", "t", "a", "t", "e", "d">>,
            <<"m", "a", "d">>>>,
   responses |-> <<<<"I hear that you're feeling ", "%", "2", ". It's okay to feel this way. Would you like to talk about what's causing these feeling", "s", "?">>,
      <<"Feeling ", "%", "2", " can be really tough. Sometimes taking deep breaths or stepping away for a moment helps. What's bothering yo", "u", "?">>>>]

\* (.*) (scared|afraid|fearful|terrified)(.*)   (source lines 131-135)
Rule9 ==
  [catchall |-> FALSE,
   lit |-> <<" ">>,
   alts |-> <<<<"s", "c", "a", "r", "e", "d">>,
            <<"a", "f", "r", "a", "i", "d">>,
            <<"f", "e", "a", "r", "f", "u", "l">>,
            <<"t", "e", "r", "r", "i", "f", "i", "e", "d">>>>,
   responses |-> <<<<"It sounds like you're feeling ", "%", "2", ". Fear can be overwhelming. You're safe here--would you like to share what's frightening yo", "u", "?">>,
      <<"I'm here with you while you feel ", "%", "2", ". Would it help to talk through what's scaring yo", "u", "?">>>>]

\* (.*) (lonely|isolated|alone)(.*)   (source lines 136-140)
Rule10 ==
  [catchall |-> FALSE,
   lit |-> <<" ">>,
   alts |-> <<<<"l", "o", "n", "e", "l", "y">>,
            <<"i", "s", "o", "l", "a", "t", "e", "d">>,
            <<"a", "l", "o", "n", "e">>>>,
   responses |-> <<<<"Feeling ", "%", "2", " can be so painful. You're not alone--I'm here to listen. Would you like to talk about what's happenin", "g", "?">>,
      <<"I hear your loneliness. Would it help to connect with someone you trust? You matte", "r", ".">>>>]

\* (.*) (confused|uncertain|lost)(.*)   (source lines 141-145)
Rule11 ==
  [catchall |-> FALSE,
   lit |-> <<" ">>,
   alts |-> <<<<"c", "o", "n", "f", "u", "s", "e", "d">>,
            <<"u", "n", "c", "e", "r", "t", "a", "i", "n">>,
            <<"l", "o", "s", "t">>>>,
   responses |-> <<<<"Feeling ", "%", "2", " is understandable when things are unclear. Let's try to sort this out together. What's on your min", "d", "?">>,
      <<"It's okay to feel ", "%", "2", ". Sometimes writing things down helps. Would you like to explore this mor", "e", "?">>>>]

\* (.*) (grateful|thankful|appreciative)(.*)   (source lines 146-150)
Rule12 ==
  [catchall |-> FALSE,
   lit |-> <<" ">>,
   alts |-> <<<<"g", "r", "a", "t", "e", "f", "u", "l">>,
            <<"t", "h", "a", "n", "k", "f", "u", "l">>,
            <<"a", "p", "p", "r", "e", "c", "i", "a", "t", "i", "v", "e">>>>,
   responses |-> <<<<"It's wonderful that you're feeling ", "%", "2", "! Gratitude can be so healing. What are you thankful for toda", "y", "?">>,
      <<"Celebrating these ", "%", "2", " feelings with you! Would you like to share what brought this o", "n", "?">>>>]

\* (.*) (numb|empty|detached)(.*)   (source lines 151-155)
Rule13 ==
  [catchall |-> FALSE,
   lit |-> <<" ">>,
   alts |-> <<<<"n", "u", "m", "b">>,
            <<"e", "m", "p", "t", "y">>,
            <<"d", "e", "t", "a", "c", "h", "e", "d">>>>,
   responses |-> <<<<"Feeling ", "%", "2", " can be really disorienting. You're not alone in this. Would you like to talk about what's happenin", "g", "?">>,
      <<"I hear that you're feeling ", "%", "2", ". Sometimes our minds do this to protect us. Would it help to explore this togethe", "r", "?">>>>]

\* (.*)   (source lines 156-160)
Rule14 ==
  [catchall |-> TRUE,
   lit |-> <<>>,
   alts |-> <<>>,
   responses |-> <<<<"I'm listening carefully. Can you tell me more about how you're feelin", "g", "?">>,
      <<"I hear you. How is this affecting yo", "u", "?">>>>]
\* self.pairs, in declared order
pairs ==
  <<Rule1, Rule2, Rule3, Rule4, Rule5, Rule6, Rule7, Rule8, Rule9, Rule10,
    Rule11, Rule12, Rule13, Rule14>>

----------------------------------------------------------------------------
(* nltk.chat.util.Chat: re.compile(pattern, re.IGNORECASE).match(text), the *)
(* first rule that matches, one of its templates, its wildcards filled.    *)

\* Python's None, as opposed to the four characters of the str "None"
None == <<"<None>">>

NoneText == <<"N", "o", "n", "e">>

\* bool(x) of a str or None
Truthy(x) == x # None /\ x # <<>>

\* how many characters ".*" can take from position p: "." stops at a line break
RECURSIVE DotStar(_, _)
DotStar(s, p) ==
  IF p > Len(s) \/ s[p] = "\n" THEN 0 ELSE 1 + DotStar(s, p + 1)

\* the literal w matches at position p, ignoring case
MatchesAt(s, p, w) ==
  /\ p + Len(w) - 1 <= Len(s)
  /\ \A k \in 1..Len(w) : LowerChar(s[p + k - 1]) = LowerChar(w[k])

\* the first alternative, in the order written, that matches at p; 0 if none
RECURSIVE FirstAlt(_, _, _, _)
FirstAlt(alts, s, p, a) ==
  IF a > Len(alts) THEN 0
  ELSE IF MatchesAt(s, p, alts[a]) THEN a
  ELSE FirstAlt(alts, s, p, a + 1)

NoMatch == [matched |-> FALSE, groups |-> <<>>]

\* group 1 is greedy: n characters first, then n - 1, ...; the trailing (.*)
\* always matches, so the first n at which literal and alternation match wins
RECURSIVE Backtrack(_, _, _)
Backtrack(rule, s, n) ==
  IF n < 0 THEN NoMatch
  ELSE LET p == n + 1
           q == p + Len(rule.lit)
           a == FirstAlt(rule.alts, s, q, 1)
       IN IF MatchesAt(s, p, rule.lit) /\ a > 0
          THEN LET e == q + Len(rule.alts[a])
               IN [matched |-> TRUE,
                   groups |-> <<Slice(s, 1, n), Slice(s, q, e - 1),
                                Slice(s, e, e + DotStar(s, e) - 1)>>]
          ELSE Backtrack(rule, s, n - 1)

\* pattern.match(str): anchored at the start of the text, not at its end
Match(rule, s) ==
  IF rule.catchall
  THEN [matched |-> TRUE, groups |-> <<Slice(s, 1, DotStar(s, 1))>>]
  ELSE Backtrack(rule, s, DotStar(s, 1))

\* nltk.chat.util.reflections, as words
reflections ==
  <<[key |-> <<<<"i">>, <<"a", "m">>>>, val |-> <<<<"y", "o", "u">>, <<"a", "r", "e">>>>],
    [key |-> <<<<"i">>, <<"w", "a", "s">>>>, val |-> <<<<"y", "o", "u">>, <<"w", "e", "r", "e">>>>],
    [key |-> <<<<"y", "o", "u">>, <<"a", "r", "e">>>>, val |-> <<<<"I">>, <<"a", "m">>>>],
    [key |-> <<<<"y", "o", "u">>, <<"w", "e", "r", "e">>>>, val |-> <<<<"I">>, <<"w", "a", "s">>>>],
    [key |-> <<<<"i", "'", "m">>>>, val |-> <<<<"y", "o", "u">>, <<"a", "r", "e">>>>],
    [key |-> <<<<"i", "'", "d">>>>, val |-> <<<<"y", "o", "u">>, <<"w", "o", "u", "l", "d">>>>],
    [key |-> <<<<"i", "'", "v", "e">>>>, val |-> <<<<"y", "o", "u">>, <<"h", "a", "v", "e">>>>],
    [key |-> <<<<"i", "'", "l", "l">>>>, val |-> <<<<"y", "o", "u">>, <<"w", "i", "l", "l">>>>],
    [key |-> <<<<"y", "o", "u", "'", "v", "e">>>>, val |-> <<<<"I">>, <<"h", "a", "v", "e">>>>],
    [key |-> <<<<"y", "o", "u", "'", "l", "l">>>>, val |-> <<<<"I">>, <<"w", "i", "l", "l">>>>],
    [key |-> <<<<"i">>>>, val |-> <<<<"y", "o", "u">>>>],
    [key |-> <<<<"m", "y">>>>, val |-> <<<<"y", "o", "u", "r">>>>],
    [key |-> <<<<"y", "o", "u", "r">>>>, val |-> <<<<"m", "y">>>>],
    [key |-> <<<<"y", "o", "u", "r", "s">>>>, val |-> <<<<"m", "i", "n", "e">>>>],
    [key |-> <<<<"y", "o", "u">>>>, val |-> <<<<"m", "e">>>>],
    [key |-> <<<<"m", "e">>>>, val |-> <<<<"y", "o", "u">>>>]>>

\* str.split(" "): the pieces between single spaces, empty pieces kept
RECURSIVE Pieces(_, _)
Pieces(s, piece) ==
  IF s = <<>> THEN <<piece>>
  ELSE IF Head(s) = " " THEN <<piece>> \o Pieces(Tail(s), <<>>)
  ELSE Pieces(Tail(s), Append(piece, Head(s)))

RECURSIVE Join(_)
Join(ws) ==
  IF ws = <<>> THEN <<>>
  ELSE IF Len(ws) = 1 THEN ws[1]
  ELSE ws[1] \o <<" ">> \o Join(Tail(ws))

RECURSIVE Reflect(_)
Reflect(ws) ==
  IF ws = <<>> THEN <<>>
  ELSE LET hits == {r \in 1..Len(reflections) :
                      /\ Len(reflections[r].key) <= Len(ws)
                      /\ SubSeq(ws, 1, Len(reflections[r].key)) = reflections[r].key}
       IN IF hits = {} THEN <<Head(ws)>> \o Reflect(Tail(ws))
          ELSE LET r == CHOOSE h \in hits : \A g \in hits : h <= g
               IN reflections[r].val
                    \o Reflect(SubSeq(ws, Len(reflections[r].key) + 1, Len(ws)))

\* Chat._substitute: the capture lower-cased, its pronouns reflected
Substitute(s) == Join(Reflect(Pieces(Lower(s), <<>>)))

Digit(c) == Ord(c) - Ord("0")

\* Chat._wildcards: each "%d", leftmost first, becomes group d
RECURSIVE Wildcards(_, _)
Wildcards(response, groups) ==
  LET pos == {i \in 1..Len(response) : response[i] = "%"}
  IN IF pos = {} THEN response
     ELSE LET p == CHOOSE i \in pos : \A j \in pos : i <= j
              num == Digit(response[p + 1])
          IN Wildcards(Slice(response, 1, p - 1) \o Substitute(groups[num])
                         \o Slice(response, p + 2, Len(response)), groups)

\* Chat.respond's "fix munged punctuation at the end"
FixPunctuation(resp) ==
  LET n == Len(resp)
  IN IF n >= 2 /\ resp[n - 1] = "?" /\ resp[n] = "."
     THEN Append(Slice(resp, 1, n - 2), ".")
     ELSE IF n >= 2 /\ resp[n - 1] = "?" /\ resp[n] = "?"
          THEN Append(Slice(resp, 1, n - 2), "?")
          ELSE resp

\* variant: every rule is tried and the last one that matches is kept
RECURSIVE LastRule(_, _, _)
LastRule(rules, s, k) ==
  IF k > Len(rules) THEN 0
  ELSE LET later == LastRule(rules, s, k + 1)
       IN IF later # 0 THEN later
          ELSE IF Match(rules[k], s).matched THEN k ELSE 0

\* the first rule, from rule k on, whose pattern matches; 0 if none does
RECURSIVE FirstRule(_, _, _)
FirstRule(rules, s, k) ==
  IF k > Len(rules) THEN 0
  ELSE IF Match(rules[k], s).matched THEN k
  ELSE FirstRule(rules, s, k + 1)

\* Chat.respond: what it can return for s; random.choice picks the template
ChatRespond(rules, s) ==
  LET k == FirstRule(rules, s, 1)
  IN IF k = 0 THEN {None}
     ELSE {FixPunctuation(Wildcards(rules[k].responses[c], Match(rules[k], s).groups)) :
             c \in 1..Len(rules[k].responses)}

----------------------------------------------------------------------------
(* find_best_match: difflib.get_close_matches(word, possibilities, n=1,    *)
(* cutoff=0.6) with SequenceMatcher(a = possibility, b = word), no junk.   *)

CutoffNum == 6

CutoffDen == 10

Min(x, y) == IF x <= y THEN x ELSE y

Count(s, c) == Cardinality({i \in 1..Len(s) : s[i] = c})

\* a ratio 2.0 * matches / length as a fraction; 1.0 when both are empty
CalculateRatio(matches, length) ==
  IF length = 0 THEN <<1, 1>> ELSE <<2 * matches, length>>

AtLeastCutoff(r) == r[1] * CutoffDen >= CutoffNum * r[2]

RealQuickRatio(a, b) == CalculateRatio(Min(Len(a), Len(b)), Len(a) + Len(b))

RECURSIVE SumOver(_, _, _)
SumOver(cs, a, b) ==
  IF cs = {} THEN 0
  ELSE LET c == CHOOSE x \in cs : TRUE
       IN Min(Count(a, c), Count(b, c)) + SumOver(cs \ {c}, a, b)

QuickRatio(a, b) ==
  CalculateRatio(SumOver({a[i] : i \in 1..Len(a)}, a, b), Len(a) + Len(b))

RECURSIVE RunLen(_, _, _, _, _, _)
RunLen(a, b, i, j, ahi, bhi) ==
  IF i > ahi \/ j > bhi THEN 0
  ELSE IF a[i] # b[j] THEN 0
  ELSE 1 + RunLen(a, b, i + 1, j + 1, ahi, bhi)

\* get_matching_blocks: the longest block of a[alo..ahi] and b[blo..bhi], the
\* earliest in a and then in b among the longest, then the same left and right
RECURSIVE MatchingSize(_, _, _, _, _, _)
MatchingSize(a, b, alo, ahi, blo, bhi) ==
  LET starts == {p \in (alo..ahi) \X (blo..bhi) : a[p[1]] = b[p[2]]}
  IN IF starts = {} THEN 0
     ELSE LET len == [p \in starts |-> RunLen(a, b, p[1], p[2], ahi, bhi)]
              best == CHOOSE p \in starts : \A q \in starts :
                        \/ len[p] > len[q]
                        \/ len[p] = len[q] /\ p[1] < q[1]
                        \/ len[p] = len[q] /\ p[1] = q[1] /\ p[2] <= q[2]
              k == len[best]
          IN k + MatchingSize(a, b, alo, best[1] - 1, blo, best[2] - 1)
               + MatchingSize(a, b, best[1] + k, ahi, best[2] + k, bhi)

Ratio(a, b) ==
  CalculateRatio(MatchingSize(a, b, 1, Len(a), 1, Len(b)), Len(a) + Len(b))

\* a possibility x is kept when all three ratios reach the cutoff
CloseEnough(x, word) ==
  /\ AtLeastCutoff(RealQuickRatio(x, word))
  /\ AtLeastCutoff(QuickRatio(x, word))
  /\ AtLeastCutoff(Ratio(x, word))

\* (score, x) < (score', y) for the tuples heapq.nlargest compares
ScoredLess(x, y, word) ==
  LET rx == Ratio(x, word)
      ry == Ratio(y, word)
  IN \/ rx[1] * ry[2] < ry[1] * rx[2]
     \/ rx[1] * ry[2] = ry[1] * rx[2] /\ StrLess(x, y)

find_best_match(user_question, questions) ==
  LET kept == {i \in 1..Len(questions) : CloseEnough(questions[i], user_question)}
  IN IF kept = {} THEN None
     ELSE questions[CHOOSE i \in kept :
                      \A j \in kept : ~ScoredLess(questions[i], questions[j], user_question)]

----------------------------------------------------------------------------
(* EnhancedMentalHealthChatbot *)

positive_words ==
  <<<<"h", "a", "p", "p", "y">>, <<"g", "o", "o", "d">>, <<"g", "r", "e", "a", "t">>,
    <<"a", "w", "e", "s", "o", "m", "e">>, <<"b", "e", "t", "t", "e", "r">>,
    <<"i", "m", "p", "r", "o", "v", "e", "d">>>>

negative_words ==
  <<<<"s", "a", "d">>, <<"d", "e", "p", "r", "e", "s", "s", "e", "d">>,
    <<"a", "n", "x", "i", "o", "u", "s">>, <<"b", "a", "d">>,
    <<"t", "e", "r", "r", "i", "b", "l", "e">>, <<"h", "o", "p", "e", "l", "e", "s", "s">>>>

InList(w, list) == \E i \in 1..Len(list) : list[i] = w

\* the loop of analyze_sentiment over the words, score carried along
RECURSIVE ScoreWords(_, _)
ScoreWords(words, score) ==
  IF words = <<>> THEN score
  ELSE ScoreWords(Tail(words),
                  IF InList(Head(words), positive_words) THEN score + 1
                  ELSE IF InList(Head(words), negative_words) THEN score - 1
                  ELSE score)

\* variant: the text is split without being lower-cased
analyze_sentiment_no_lower(text) == ScoreWords(Split(text), 0)

analyze_sentiment(text) == ScoreWords(Split(Lower(text)), 0)

follow_ups ==
  <<<<"I want to make sure I understand. Can you explain that in another way?">>,
    <<"I'm listening carefully. What else is on your mind?">>,
    <<"That's important. How has this been affecting you?">>,
    <<"glad you could share that. What would be helpful for you right now?">>>>

\* variant: a later entry with the same question overrides an earlier one
get_last_answer_for_question(question, kb) ==
  LET hits == {i \in 1..Len(kb) : kb[i].question = question}
  IN IF hits = {} THEN None
     ELSE kb[CHOOSE i \in hits : \A j \in hits : i >= j].answer

\* the answer of the first entry with that question, None without one
get_answer_for_question(question, kb) ==
  LET hits == {i \in 1..Len(kb) : kb[i].question = question}
  IN IF hits = {} THEN None
     ELSE kb[CHOOSE i \in hits : \A j \in hits : i <= j].answer

\* variant: the input and the reply bound to each other's column
log_conversation_swapped(rows, text, bot_response, sentiment_score) ==
  Append(rows, [user_input |-> bot_response, bot_response |-> text,
                sentiment_score |-> sentiment_score])

\* the INSERT of _log_conversation and its commit
log_conversation(rows, text, bot_response, sentiment_score) ==
  Append(rows, [user_input |-> text, bot_response |-> bot_response,
                sentiment_score |-> sentiment_score])

\* variant: "if answer is not None" in place of "if answer"
respond_answer_not_none(text, kb) ==
  LET best_match == find_best_match(text, [i \in 1..Len(kb) |-> kb[i].question])
      answer == IF Truthy(best_match) THEN get_answer_for_question(best_match, kb)
                ELSE None
  IN IF Truthy(best_match) /\ answer # None
     THEN {[response |-> answer, engine |-> FALSE, fallback |-> FALSE,
            logged |-> FALSE]}
     ELSE UNION {IF ~Truthy(r) \/ r = NoneText
                 THEN {[response |-> follow_ups[f], engine |-> TRUE,
                        fallback |-> TRUE, logged |-> TRUE] :
                         f \in 1..Len(follow_ups)}
                 ELSE {[response |-> r, engine |-> TRUE, fallback |-> FALSE,
                        logged |-> TRUE]} :
                   r \in ChatRespond(pairs, text)}

\* respond: what one call can return for text, with what it did on the way:
\* engine (self.chatbot.respond was called), fallback (a follow-up replaced
\* its result), logged (_log_conversation was called)
respond(text, kb) ==
  LET best_match == find_best_match(text, [i \in 1..Len(kb) |-> kb[i].question])
      answer == IF Truthy(best_match) THEN get_answer_for_question(best_match, kb)
                ELSE None
  IN IF Truthy(best_match) /\ Truthy(answer)
     THEN {[response |-> answer, engine |-> FALSE, fallback |-> FALSE,
            logged |-> FALSE]}
     ELSE UNION {IF ~Truthy(r) \/ r = NoneText
                 THEN {[response |-> follow_ups[f], engine |-> TRUE,
                        fallback |-> TRUE, logged |-> TRUE] :
                         f \in 1..Len(follow_ups)}
                 ELSE {[response |-> r, engine |-> TRUE, fallback |-> FALSE,
                        logged |-> TRUE]} :
                   r \in ChatRespond(pairs, text)}

\* the conversations table after a call of respond with outcome o
Logged(rows, text, o) ==
  IF o.logged
  THEN log_conversation(rows, text, o.response, analyze_sentiment(text))
  ELSE rows

----------------------------------------------------------------------------
(* The resources table and the emergency list *)

seed_resources ==
  <<
    [title |-> "Vandrevala Foundation",
     description |-> "24/7 Mental Health Helpline: Call +91 9999 666 555",
     url |-> "https://www.vandrevalafoundation.com",
     category |-> "crisis"],
    [title |-> "iCall",
     description |-> "Psychosocial helpline (Mon-Sat, 10AM-8PM): +91 91529 87821",
     url |-> "https://icallhelpline.org",
     category |-> "crisis"],
    [title |-> "COOJ Mental Health Foundation",
     description |-> "Helpline for Goa: +91 98225 25200",
     url |-> "https://cooj.co.in",
     category |-> "crisis"],
    [title |-> "The Mind Clinic",
     description |-> "Online therapy sessions (Pan-India)",
     url |-> "https://themindclan.com",
     category |-> "therapy"],
    [title |-> "InnerHour",
     description |-> "Self-care app with Indian therapists",
     url |-> "https://www.theinnerhour.com",
     category |-> "therapy"],
    [title |-> "Manas",
     description |-> "Free counseling by TISS students",
     url |-> "https://www.tiss.edu/manas",
     category |-> "therapy"],
    [title |-> "Let's Talk About Mental Health",
     description |-> "Hindi/English mental health guides",
     url |-> "https://letstalkaboutmentalhealth.com.in",
     category |-> "self-help"],
    [title |-> "The Health Collective",
     description |-> "Mental health stories & resources",
     url |-> "https://www.thehealthcollective.in",
     category |-> "education"],
    [title |-> "Sangath",
     description |-> "Mental health support for LGBTQ+",
     url |-> "https://sangath.in",
     category |-> "lgbtq"],
    [title |-> "Nazariya",
     description |-> "Queer-affirmative counseling",
     url |-> "http://nazariyaqfrg.tumblr.com",
     category |-> "lgbtq"],
    [title |-> "National Suicide Prevention Lifeline",
     description |-> "24/7 free and confidential support",
     url |-> "https://988lifeline.org",
     category |-> "crisis"],
    [title |-> "Crisis Text Line",
     description |-> "Text HOME to 741741 for 24/7 crisis support",
     url |-> "https://www.crisistextline.org",
     category |-> "crisis"],
    [title |-> "Mindfulness Exercises",
     description |-> "Guided mindfulness and meditation exercises",
     url |-> "https://www.mindful.org/free-mindfulness-resources/",
     category |-> "self-help"],
    [title |-> "7 Cups",
     description |-> "Free online therapy and counseling",
     url |-> "https://www.7cups.com",
     category |-> "therapy"],
    [title |-> "Anger Management",
     description |-> "Healthy ways to process anger",
     url |-> "https://www.apa.org/topics/anger/control",
     category |-> "anger"],
    [title |-> "Anxiety UK",
     description |-> "Support for anxiety and fear",
     url |-> "https://www.anxietyuk.org.uk",
     category |-> "fear"],
    [title |-> "The Friendship Bench",
     description |-> "Combat loneliness",
     url |-> "https://friendshipbenchzimbabwe.org",
     category |-> "loneliness"],
    [title |-> "Emotional Numbness Guide",
     description |-> "Understanding detachment",
     url |-> "https://www.healthline.com/health/emotional-numbness",
     category |-> "numbness"]>>

india_resources ==
  <<"Vandrevala Foundation: Call +91 9999 666 555 (24/7)\nhttps://www.vandrevalafoundation.com",
    "iCall Helpline: Call +91 91529 87821 (Mon-Sat, 10AM-8PM)\nhttps://icallhelpline.org",
    "AASRA (Suicide Prevention): Call +91 98204 66766 (24/7)\nhttp://www.aasra.info",
    "National Mental Health Helpline: Call 1800-599-0019 (24/7)\nhttps://www.nimhans.ac.in",
    "Fortis Stress Helpline: Call +91 83768 04102 (24/7)\nhttps://www.fortishealthcare.com">>

global_resources ==
  <<"National Suicide Prevention Lifeline (US): Call 988\nhttps://988lifeline.org",
    "Crisis Text Line: Text HOME to 741741\nhttps://www.crisistextline.org",
    "International Association for Suicide Prevention: Find resources worldwide\nhttps://www.iasp.info/resources/Crisis_Centres/",
    "Mental Health America: Find local resources\nhttps://www.mhanational.org">>
----------------------------------------------------------------------------
(* Inputs of the model *)

Feeling == <<"f", "e", "e", "l", "i", "n", "g">>

Sad == <<"s", "a", "d">>

StressCap == <<"S", "t", "r", "e", "s", "s">>

Suicide == <<"s", "u", "i", "c", "i", "d", "e">>

GoodCap == <<"G", "o", "o", "d">>

\* the texts made of at most n chunks
Texts(chunks, n) ==
  {Flatten(cs) : cs \in UNION {[1..k -> chunks] : k \in 0..n}}

\* user inputs of the single-call runs of respond
TurnChunks == {<<" ">>, <<"\n">>, <<"x">>, Feeling, Sad, StressCap, Suicide}

TurnInputs == Texts(TurnChunks, MaxChunks)

\* user inputs of the single-call runs of analyze_sentiment
SentimentChunks == {<<" ">>, <<"\t">>, <<"x">>, Sad, GoodCap}

SentimentInputs == Texts(SentimentChunks, MaxChunks)

\* knowledge_base.json is not part of the repository: the file absent, a file
\* with a repeated question, an empty answer and an empty question, and a file
\* with two questions equally close to "x"
NoKB == <<>>

KB1 ==
  <<[question |-> <<"x", " ", "x">>, answer |-> <<"Try to rest.">>],
    [question |-> <<"x", " ", "x">>, answer |-> <<"Shadowed answer.">>],
    [question |-> Sad, answer |-> <<>>],
    [question |-> <<>>, answer |-> <<"Answer to nothing.">>]>>

KB2 ==
  <<[question |-> <<" ", "x">>, answer |-> <<"Before.">>],
    [question |-> <<"x", " ">>, answer |-> <<"After.">>]>>

KnowledgeBases == {NoKB, KB1, KB2}

NoResult == [op |-> "none"]

\* the window is not in use in the runs of single calls and sessions
NoWindow ==
  /\ entry = <<>>
  /\ chat_display = <<>>
  /\ threads = <<>>
  /\ timers = <<>>
  /\ destroyed = FALSE
  /\ last = "none"
  /\ clicks = 0

WindowUnchanged ==
  UNCHANGED <<entry, chat_display, threads, timers, destroyed, last, clicks>>

----------------------------------------------------------------------------
(* Single calls of respond on any input and knowledge base *)

InitTurn ==
  /\ knowledge_base \in KnowledgeBases
  /\ user_input \in TurnInputs
  /\ conversations = <<>>
  /\ resources = seed_resources
  /\ result = NoResult
  /\ history = <<>>
  /\ seed_runs = 0
  /\ NoWindow

CallRespond ==
  /\ result = NoResult
  /\ \E o \in respond(user_input, knowledge_base) :
       /\ result' = [op |-> "respond", response |-> o.response, engine |-> o.engine,
                     fallback |-> o.fallback, logged |-> o.logged]
       /\ conversations' = Logged(conversations, user_input, o)
  /\ UNCHANGED <<knowledge_base, resources, user_input, history, seed_runs>>
  /\ WindowUnchanged

NextTurn == CallRespond

SpecTurn == InitTurn /\ [][NextTurn]_vars

----------------------------------------------------------------------------
(* Single calls of analyze_sentiment *)

InitSentiment ==
  /\ knowledge_base = NoKB
  /\ user_input \in SentimentInputs
  /\ conversations = <<>>
  /\ resources = seed_resources
  /\ result = NoResult
  /\ history = <<>>
  /\ seed_runs = 0
  /\ NoWindow

CallAnalyzeSentiment ==
  /\ result = NoResult
  /\ result' = [op |-> "analyze_sentiment", score |-> analyze_sentiment(user_input)]
  /\ UNCHANGED <<knowledge_base, conversations, resources, user_input, history, seed_runs>>
  /\ WindowUnchanged

NextSentiment == CallAnalyzeSentiment

SpecSentiment == InitSentiment /\ [][NextSentiment]_vars

----------------------------------------------------------------------------
(* Properties of single calls *)

\* the text w occurs in s
Contains(s, w) ==
  \E p \in 1..(Len(s) - Len(w) + 1) : SubSeq(s, p, p + Len(w) - 1) = w

\* rule k's pattern matches s, stated on the text: somewhere on the first line
\* the rule's literal is followed by one of its alternatives, in any case
RuleMatches(k, s) ==
  \/ pairs[k].catchall
  \/ \E p \in 1..Len(s) :
       /\ MatchesAt(s, p, pairs[k].lit)
       /\ \E a \in 1..Len(pairs[k].alts) :
            MatchesAt(s, p + Len(pairs[k].lit), pairs[k].alts[a])
       /\ \A i \in 1..(p - 1) : s[i] # "\n"

\* template t with every "%2" replaced by the word w
RECURSIVE Fill(_, _)
Fill(t, w) ==
  IF t = <<>> THEN <<>>
  ELSE IF Len(t) >= 2 /\ t[1] = "%" /\ t[2] = "2" THEN w \o Fill(SubSeq(t, 3, Len(t)), w)
  ELSE <<Head(t)>> \o Fill(Tail(t), w)

\* the replies rule k can give: its templates filled with one of its words
Instances(k) ==
  IF pairs[k].catchall
  THEN {pairs[k].responses[c] : c \in 1..Len(pairs[k].responses)}
  ELSE {Fill(pairs[k].responses[c], pairs[k].alts[a]) :
          c \in 1..Len(pairs[k].responses), a \in 1..Len(pairs[k].alts)}

MatchingRules(s) == {k \in 1..Len(pairs) : RuleMatches(k, s)}

Questions(kb) == [i \in 1..Len(kb) |-> kb[i].question]

\* the answer of the first entry of kb whose question is q
FirstAnswer(kb, q) ==
  kb[CHOOSE i \in 1..Len(kb) :
       kb[i].question = q /\ \A j \in 1..(i - 1) : kb[j].question # q].answer

Responded == result.op = "respond"

\* C2 as stated: every accepted match, also one with an empty question or an
\* empty answer, makes respond return the first entry's answer at once, without
\* the pattern engine, the follow-up fallback or a conversation record.
C2_AcceptedMatchAnswersAtOnce ==
  Responded =>
    LET q == find_best_match(user_input, Questions(knowledge_base))
    IN q # None =>
         /\ result.response = FirstAnswer(knowledge_base, q)
         /\ ~result.engine /\ ~result.fallback
         /\ conversations = <<>>

\* C2 amended: an accepted match whose question is not empty and whose first
\* entry has a non-empty answer makes respond return that answer at once,
\* without the pattern engine, the fallback or a conversation record; an
\* accepted match with an empty question or an empty answer is handed to the
\* pattern engine and logged like any other turn.
C2_NonEmptyMatchAnswersAtOnce ==
  Responded =>
    LET q == find_best_match(user_input, Questions(knowledge_base))
    IN q # None =>
         IF q # <<>> /\ FirstAnswer(knowledge_base, q) # <<>>
         THEN /\ result.response = FirstAnswer(knowledge_base, q)
              /\ ~result.engine /\ ~result.fallback
              /\ conversations = <<>>
         ELSE /\ result.engine
              /\ Len(conversations) = 1

\* a fuzzy (not literal) match on a question that two entries share
C2_Witness ==
  /\ Responded
  /\ knowledge_base = KB1
  /\ user_input # <<"x", " ", "x">>
  /\ find_best_match(user_input, Questions(knowledge_base)) = <<"x", " ", "x">>
  /\ result.response = <<"Try to rest.">>

FeelingSad == Feeling \o <<" ">> \o Sad

\* C4: an input that contains "feeling sad" and reaches the pattern engine is
\* answered by a rule whose group 2 is "sad": the reply is one of that rule's
\* templates with every %2 replaced by "sad".
C4_FeelingSadCapturesSad ==
  (Responded /\ result.engine /\ Contains(user_input, FeelingSad)) =>
    \E k \in 1..Len(pairs) :
      /\ InList(Sad, pairs[k].alts)
      /\ result.response \in {Fill(pairs[k].responses[c], Sad) :
                                c \in 1..Len(pairs[k].responses)}

\* C5: the reply of the pattern engine is a filled template of the earliest
\* declared rule whose pattern matches the input, and of no later matching rule.
C5_FirstMatchingRuleWins ==
  (Responded /\ result.engine) =>
    LET m == MatchingRules(user_input)
        first == CHOOSE k \in m : \A j \in m : k <= j
    IN /\ m # {}
       /\ result.response \in Instances(first)
       /\ \A k \in m \ {first} : result.response \notin Instances(k)

\* an input that matches the stress/anxiety rule 2 and the suicide rule 5
C5_Witness ==
  /\ Responded /\ result.engine
  /\ RuleMatches(2, user_input)
  /\ RuleMatches(5, user_input)

\* C6: respond always returns a non-empty string, and an input that matches
\* none of the 13 keyword rules gets a template of the catch-all rule (or a
\* follow-up prompt).
C6_ReplyNeverEmpty ==
  Responded =>
    /\ result.response # None
    /\ Len(result.response) > 0
    /\ (result.engine /\ MatchingRules(user_input) \subseteq {Len(pairs)}) =>
         result.response \in Instances(Len(pairs))
                               \cup {follow_ups[f] : f \in 1..Len(follow_ups)}

\* a non-empty input that matches no keyword rule, answered by the engine
C6_Witness ==
  /\ Responded /\ result.engine
  /\ user_input # <<>>
  /\ MatchingRules(user_input) = {Len(pairs)}
  /\ Len(result.response) > 0

ClaimPositive ==
  {<<"h", "a", "p", "p", "y">>, <<"g", "o", "o", "d">>, <<"g", "r", "e", "a", "t">>,
   <<"a", "w", "e", "s", "o", "m", "e">>, <<"b", "e", "t", "t", "e", "r">>,
   <<"i", "m", "p", "r", "o", "v", "e", "d">>}

ClaimNegative ==
  {<<"s", "a", "d">>, <<"d", "e", "p", "r", "e", "s", "s", "e", "d">>,
   <<"a", "n", "x", "i", "o", "u", "s">>, <<"b", "a", "d">>,
   <<"t", "e", "r", "r", "i", "b", "l", "e">>, <<"h", "o", "p", "e", "l", "e", "s", "s">>}

\* the tokens of s as spans: the maximal runs without whitespace
Tokens(s) ==
  {sp \in (1..Len(s)) \X (1..Len(s)) :
     /\ sp[1] <= sp[2]
     /\ \A i \in sp[1]..sp[2] : ~IsSpace(s[i])
     /\ (sp[1] = 1 \/ IsSpace(s[sp[1] - 1]))
     /\ (sp[2] = Len(s) \/ IsSpace(s[sp[2] + 1]))}

TokensIn(s, words) ==
  Cardinality({sp \in Tokens(s) : SubSeq(Lower(s), sp[1], sp[2]) \in words})

\* C7: analyze_sentiment(text) is the number of whitespace-separated tokens of
\* the lower-cased text in the positive set minus the number in the negative
\* set; other tokens count 0 and the empty text scores 0.
C7_SentimentIsKeywordCount ==
  result.op = "analyze_sentiment" =>
    /\ result.score = TokensIn(user_input, ClaimPositive) - TokensIn(user_input, ClaimNegative)
    /\ (user_input = <<>> => result.score = 0)

\* a text with a positive token, a negative token and another one
C7_Witness ==
  /\ result.op = "analyze_sentiment"
  /\ TokensIn(user_input, ClaimPositive) >= 1
  /\ TokensIn(user_input, ClaimNegative) >= 1
  /\ Cardinality(Tokens(user_input)) >= 2
  /\ result.score = 0

----------------------------------------------------------------------------
(* Sessions: calls of respond one after the other, and the seeding of the   *)
(* resources table, on a database file that outlives the process.          *)

SeedSize == 18

\* variant: the rows are inserted without the COUNT(*) test
initialize_resources_unchecked(rows) == rows \o seed_resources

\* initialize_resources: the table after the call
initialize_resources(rows) ==
  IF Len(rows) = 0 THEN rows \o seed_resources ELSE rows

\* what the conversations table can hold when a session starts
PriorLogs ==
  {<<>>,
   <<[user_input |-> <<"x">>, bot_response |-> follow_ups[2], sentiment_score |-> 0]>>}

SessionInputs ==
  {<<>>, <<"x", " ", "x">>, <<"x", "x">>, Sad, <<" ">> \o Feeling \o <<" ">> \o Sad,
   <<" ">> \o GoodCap}

InitSession ==
  /\ knowledge_base \in {NoKB, KB1}
  /\ conversations \in PriorLogs
  /\ resources \in {<<>>, seed_resources}
  /\ user_input = <<>>
  /\ result = NoResult
  /\ history = <<>>
  /\ seed_runs = 0
  /\ NoWindow

\* one turn: a whole call of respond, its log write included
Turn ==
  /\ Len(history) < MaxTurns
  /\ \E text \in SessionInputs : \E o \in respond(text, knowledge_base) :
       /\ conversations' = Logged(conversations, text, o)
       /\ history' = Append(history, [user_input |-> text, response |-> o.response,
                                      engine |-> o.engine])
  /\ UNCHANGED <<knowledge_base, resources, user_input, result, seed_runs>>
  /\ WindowUnchanged

\* a start of the program: the class body of ChatUI calls initialize_resources
InitializeResources ==
  /\ seed_runs < MaxSeedRuns
  /\ resources' = initialize_resources(resources)
  /\ seed_runs' = seed_runs + 1
  /\ UNCHANGED <<knowledge_base, conversations, user_input, result, history>>
  /\ WindowUnchanged

NextSession == Turn \/ InitializeResources

SpecSession == InitSession /\ [][NextSession]_vars

\* the rows the pattern-path turns of a session leave, in order
RECURSIVE PatternRows(_)
PatternRows(h) ==
  IF h = <<>> THEN <<>>
  ELSE (IF Head(h).engine
        THEN <<[user_input |-> Head(h).user_input,
                bot_response |-> Head(h).response,
                sentiment_score |-> TokensIn(Head(h).user_input, ClaimPositive)
                                      - TokensIn(Head(h).user_input, ClaimNegative)]>>
        ELSE <<>>) \o PatternRows(Tail(h))

\* C1: the conversations table is what it held before the session followed by
\* one row per pattern-path turn, in order, with that turn's input, reply and
\* sentiment; knowledge-base-path turns add nothing and no row is changed.
C1_OneRowPerPatternTurn ==
  \E prior \in PriorLogs : conversations = prior \o PatternRows(history)

\* a session with a knowledge-base turn between two pattern turns, on a table
\* that already held a row
C1_Witness ==
  /\ Len(history) >= 3
  /\ history[1].engine /\ ~history[2].engine /\ history[3].engine
  /\ Len(conversations) = 3

\* C9: once initialize_resources has run, the resources table holds exactly
\* the 18 literal rows, however often it runs again and whatever turns come
\* in between; the table never holds more.
C9_SeedingIdempotent ==
  /\ Len(resources) <= SeedSize
  /\ seed_runs >= 1 => (resources = seed_resources /\ Len(resources) = SeedSize)

\* seeding ran on an empty table, then again after a turn
C9_Witness ==
  /\ seed_runs >= 2
  /\ Len(history) >= 1
  /\ Len(resources) = SeedSize

----------------------------------------------------------------------------
(* ChatUI: the window, its handlers, the process_response threads and the   *)
(* callbacks of master.after.  Time is counted in steps of TickMs, the      *)
(* greatest common divisor of the three delays of the code.                *)

ReplyDelay == 500

ResourceDelay == 1500

QuitDelay == 2000

RECURSIVE GCD(_, _)
GCD(x, y) == IF y = 0 THEN x ELSE GCD(y, x % y)

TickMs == GCD(ReplyDelay, GCD(ResourceDelay, QuitDelay))

Greeting == <<"Hello, I'm here to listen and support you. How are you feeling today?">>

Farewell ==
  <<"Thank you for chatting. Remember to be kind to yourself. You can always come back if you need to talk.">>

Quit == <<"q", "u", "i", "t">>

\* display_message: the text inserted at END of self.chat_display, with its tag
display_message(display, sender, message, resource) ==
  Append(display,
         [tag |-> IF sender = "user" THEN "user"
                  ELSE IF resource THEN "resource" ELSE "bot",
          text |-> <<IF sender = "user" THEN "You: " ELSE "Support Bot: ">>
                     \o message \o <<"\n", "\n">>])

RECURSIVE DisplayAll(_, _)
DisplayAll(display, messages) ==
  IF messages = <<>> THEN display
  ELSE DisplayAll(display_message(display, "bot", <<Head(messages)>>, TRUE),
                  Tail(messages))

\* master.after(ms, callback): one more pending callback
After(pending, ms, kind, thread, message) ==
  Append(pending, [kind |-> kind, delay |-> ms, rem |-> ms, thread |-> thread,
                   message |-> message])

\* variant: the empty text is not tested for
IgnoredNever(text) == FALSE

\* "if not user_input: return" of send_message
Ignored(text) == text = <<>>

\* variant: the teardown is due at once
QuitTimersNow(pending) == After(pending, 0, "destroy", 0, <<>>)

\* the quit branch of send_message: self.master.after(2000, self.master.destroy)
QuitTimers(pending) == After(pending, QuitDelay, "destroy", 0, <<>>)

\* self.resources of the chatbot: the table as _load_resources read it when
\* the window was built, after the class body had seeded it
self_resources == seed_resources

\* a quit has been submitted and its teardown is still to come
QuitPending(pending) == \E j \in 1..Len(pending) : pending[j].kind = "destroy"

\* what the user can have in the input field
EntryTexts ==
  {<<>>, <<" ", "\t">>, <<" ", "Q", "u", "i", "t">>, <<"x", " ", "x">>, Sad \o <<" ">>}

Running(t) == t.pc \in {"respond", "executing", "schedule", "suggest"}

Init ==
  /\ knowledge_base = KB1
  /\ conversations = <<>>
  /\ resources = seed_resources
  /\ user_input = <<>>
  /\ result = NoResult
  /\ history = <<>>
  /\ seed_runs = 0
  /\ entry = <<>>
  /\ chat_display = display_message(<<>>, "bot", Greeting, FALSE)
  /\ threads = <<>>
  /\ timers = <<>>
  /\ destroyed = FALSE
  /\ last = "none"
  /\ clicks = 0

ChatbotUnchanged ==
  UNCHANGED <<knowledge_base, resources, user_input, result, history, seed_runs>>

\* the user edits the input field
Type ==
  /\ ~destroyed
  /\ \E text \in EntryTexts : entry' = text
  /\ UNCHANGED <<conversations, chat_display, threads, timers, destroyed, last, clicks>>
  /\ ChatbotUnchanged

\* send_message, on <Return> or the Send button
SendMessage ==
  /\ ~destroyed
  /\ LET text == Strip(entry)
     IN IF Ignored(text)
        THEN /\ last' = "ignored"
             /\ UNCHANGED <<entry, chat_display, threads, timers, clicks>>
        ELSE /\ clicks < MaxUserActions
             /\ clicks' = clicks + 1
             /\ IF Lower(text) = Quit
                THEN /\ chat_display' = display_message(chat_display, "bot", Farewell, FALSE)
                     /\ timers' = QuitTimers(timers)
                     /\ threads' = [i \in 1..Len(threads) |->
                                      [threads[i] EXCEPT !.waiting_at_quit =
                                         @ \/ (threads[i].reply = "pending"
                                                 /\ ~QuitPending(timers))]]
                     /\ last' = "handled"
                     /\ UNCHANGED entry
                ELSE /\ chat_display' = display_message(chat_display, "user", text, FALSE)
                     /\ entry' = <<>>
                     /\ threads' = Append(threads,
                                          [user_input |-> text, pc |-> "respond",
                                           response |-> None, reply |-> "none",
                                           waiting_at_quit |-> FALSE])
                     /\ last' = "handled"
                     /\ UNCHANGED timers
  /\ UNCHANGED <<conversations, destroyed>>
  /\ ChatbotUnchanged

\* show_resources, on the Emergency Resources button
ShowResources ==
  /\ ~destroyed
  /\ clicks < MaxUserActions
  /\ clicks' = clicks + 1
  /\ chat_display' =
       DisplayAll(
         display_message(
           DisplayAll(
             display_message(chat_display, "bot",
                             <<"Here are emergency resources in India:">>, FALSE),
             india_resources),
           "bot", <<"Here are some important resources globalwise:">>, FALSE),
         global_resources)
  /\ UNCHANGED <<conversations, entry, threads, timers, destroyed, last>>
  /\ ChatbotUnchanged

\* process_response, first part: self.chatbot.respond up to the start of the
\* INSERT.  The cursor is shared and unlocked: when another thread is inside
\* its own execute, this one either gets through or raises ProgrammingError.
ThreadRespond(i) ==
  /\ ~destroyed
  /\ threads[i].pc = "respond"
  /\ \E o \in respond(threads[i].user_input, knowledge_base) :
       \/ /\ ~o.logged
          /\ threads' = [threads EXCEPT ![i].pc = "schedule", ![i].response = o.response]
       \/ /\ o.logged
          /\ threads' = [threads EXCEPT ![i].pc = "executing", ![i].response = o.response]
       \/ /\ o.logged
          /\ \E j \in 1..Len(threads) : j # i /\ threads[j].pc = "executing"
          /\ threads' = [threads EXCEPT ![i].pc = "raised"]
  /\ UNCHANGED <<conversations, entry, chat_display, timers, destroyed, last, clicks>>
  /\ ChatbotUnchanged

\* _log_conversation: the INSERT and the commit are done
ThreadLog(i) ==
  /\ ~destroyed
  /\ threads[i].pc = "executing"
  /\ conversations' = log_conversation(conversations, threads[i].user_input,
                                       threads[i].response,
                                       analyze_sentiment(threads[i].user_input))
  /\ threads' = [threads EXCEPT ![i].pc = "schedule"]
  /\ UNCHANGED <<entry, chat_display, timers, destroyed, last, clicks>>
  /\ ChatbotUnchanged

\* variant: the thread inserts its reply into the display itself
ThreadDisplays(i) ==
  /\ ~destroyed
  /\ threads[i].pc = "schedule"
  /\ chat_display' = display_message(chat_display, "bot", threads[i].response, FALSE)
  /\ threads' = [threads EXCEPT ![i].pc = "suggest", ![i].reply = "rendered"]
  /\ UNCHANGED <<conversations, entry, timers, destroyed, last, clicks>>
  /\ ChatbotUnchanged

\* self.master.after(500, lambda: self.display_message("bot", bot_response))
ThreadSchedule(i) ==
  /\ ~destroyed
  /\ threads[i].pc = "schedule"
  /\ timers' = After(timers, ReplyDelay, "reply", i, threads[i].response)
  /\ threads' = [threads EXCEPT ![i].pc = "suggest", ![i].reply = "pending"]
  /\ UNCHANGED <<conversations, entry, chat_display, destroyed, last, clicks>>
  /\ ChatbotUnchanged

\* "if random.random() < 0.3": suggest_resources() and a second callback, or not
ThreadSuggest(i) ==
  /\ ~destroyed
  /\ threads[i].pc = "suggest"
  /\ \/ UNCHANGED timers
     \/ \E r \in 1..Min(Len(self_resources), MaxResourceRows) :
          timers' = After(timers, ResourceDelay, "resource", i,
                          <<"Here's a resource that might help: ",
                            self_resources[r].title, "\n", self_resources[r].url>>)
  /\ threads' = [threads EXCEPT ![i].pc = "done"]
  /\ UNCHANGED <<conversations, entry, chat_display, destroyed, last, clicks>>
  /\ ChatbotUnchanged

Remove(s, i) == SubSeq(s, 1, i - 1) \o SubSeq(s, i + 1, Len(s))

\* callback i is due and no callback that is due earlier is waiting: of two due
\* callbacks the one registered first runs first unless its delay was longer
MayFire(i) ==
  /\ timers[i].rem = 0
  /\ \A j \in 1..(i - 1) : timers[j].rem = 0 => timers[j].delay > timers[i].delay

\* the event loop runs a due callback
Fire(i) ==
  /\ ~destroyed
  /\ MayFire(i)
  /\ \/ /\ timers[i].kind = "reply"
        /\ chat_display' = display_message(chat_display, "bot", timers[i].message, FALSE)
        /\ threads' = [threads EXCEPT ![timers[i].thread].reply = "rendered"]
        /\ timers' = Remove(timers, i)
        /\ UNCHANGED destroyed
     \/ /\ timers[i].kind = "resource"
        /\ chat_display' = display_message(chat_display, "bot", timers[i].message, TRUE)
        /\ timers' = Remove(timers, i)
        /\ UNCHANGED <<threads, destroyed>>
     \/ /\ timers[i].kind = "destroy"
        /\ destroyed' = TRUE
        /\ timers' = <<>>
        /\ UNCHANGED <<chat_display, threads>>
  /\ UNCHANGED <<conversations, entry, last, clicks>>
  /\ ChatbotUnchanged

\* TickMs pass; a due callback runs before more time passes
Tick ==
  /\ ~destroyed
  /\ timers # <<>>
  /\ \A i \in 1..Len(timers) : timers[i].rem > 0
  /\ timers' = [i \in 1..Len(timers) |-> [timers[i] EXCEPT !.rem = @ - TickMs]]
  /\ UNCHANGED <<conversations, entry, chat_display, threads, destroyed, last, clicks>>
  /\ ChatbotUnchanged

ThreadStep ==
  \E i \in 1..Len(threads) :
    ThreadRespond(i) \/ ThreadLog(i) \/ ThreadSchedule(i) \/ ThreadSuggest(i)

TimerStep == \E i \in 1..Len(timers) : Fire(i)

Next == Type \/ SendMessage \/ ShowResources \/ ThreadStep \/ TimerStep \/ Tick

Spec == Init /\ [][Next]_vars

----------------------------------------------------------------------------
(* Properties of the window *)

\* C3 as stated: a dispatched turn is always rendered, whatever the user does
\* afterwards; since nothing is rendered once the window is destroyed, every
\* dispatched turn has been rendered by then.
C3_DispatchedTurnRenders ==
  destroyed => \A i \in 1..Len(threads) : threads[i].reply = "rendered"

\* C3 amended: a reply that is waiting on its 500 ms timer when quit is first
\* submitted is rendered before the teardown 2000 ms later.  (A turn still
\* computing then is rendered only if it schedules its reply early enough.)
C3_WaitingReplyRenders ==
  destroyed =>
    \A i \in 1..Len(threads) :
      threads[i].waiting_at_quit => threads[i].reply = "rendered"

\* the window is gone and a reply that was waiting at the quit was rendered
C3_Witness ==
  /\ destroyed
  /\ \E i \in 1..Len(threads) :
       threads[i].waiting_at_quit /\ threads[i].reply = "rendered"

\* C8: a submission that is empty after stripping changes neither the display,
\* the input field, the conversations table, the threads nor the callbacks.
C8_EmptySubmissionIgnored ==
  [][(SendMessage /\ Strip(entry) = <<>>) =>
       UNCHANGED <<chat_display, entry, conversations, threads, timers>>]_vars

\* a whitespace-only field was submitted while a turn was in progress
C8_Witness ==
  /\ last = "ignored"
  /\ entry = <<" ", "\t">>
  /\ \E i \in 1..Len(threads) : Running(threads[i])

\* C10: at most one process_response thread runs at any time, and at most
\* one is inside the shared cursor.
C10_OneTaskAtATime ==
  /\ Cardinality({i \in 1..Len(threads) : Running(threads[i])}) <= 1
  /\ Cardinality({i \in 1..Len(threads) : threads[i].pc = "executing"}) <= 1

\* C11: the display is written only by handlers of the one event loop
\* (send_message, show_resources and the callbacks the loop runs when their
\* delay is over).  No step of a process_response thread changes the display:
\* a thread only registers callbacks.  The loop runs one handler at a time,
\* so the writes to the display are never concurrent.
C11_DisplayWrittenByLoopOnly ==
  [][/\ ThreadStep => UNCHANGED chat_display
     /\ chat_display' # chat_display => (SendMessage \/ ShowResources \/ TimerStep)]_vars

\* the loop has rendered the reply of one thread while another thread is
\* still running
C11_Witness ==
  \E i, j \in 1..Len(threads) :
    /\ threads[i].reply = "rendered"
    /\ Running(threads[j])
    /\ Len(chat_display) > 2
====
